---- MODULE Spec2Model ----
(***************************************************************************)
(* Excitation-to-activation dynamics and the time-stepping loop of         *)
(* hilltype_muscle_model.ipynb (get_u, tau, dydt, do_it).                   *)
(*                                                                         *)
(* Numbers.  Python floats are represented in fixed point: an activation,  *)
(* an excitation or a time in seconds x is the integer x * ONE, rounded    *)
(* toward zero after every operation.  dydt reaches 2000 /s, so a rate r   *)
(* is the integer r * RATE with RATE = ONE / 1000.  Products are formed by *)
(* MulDiv so that no intermediate value leaves 32 bits.                     *)
(*                                                                         *)
(* scipy.integrate.odeint is not code of the notebook.  It is represented  *)
(* by one explicit step of size dt per grid interval, y + dt * dydt(y, t), *)
(* which evaluates the notebook's dydt at the current state and time.      *)
(* openmuscle.Muscle is not code of the notebook either; it is a stub that *)
(* records how it was constructed and called.                               *)
(***************************************************************************)
EXTENDS Integers, Sequences, FiniteSets, TLC

VARIABLES
    pc,               \* "idle" | "odeint" | "loop" : where the kernel is
    runs,             \* number of slider callbacks started so far
    pulse_duration,   \* arguments of the current do_it call
    pulse_amplitude,
    total_duration,
    i_grid,           \* index of the solver's current grid point
    a_cur,            \* the solver's activation at grid point i_grid
    ev,               \* the last evaluation of dydt made by the solver
    a_first,          \* activation, at the same grid point, of a first run
                      \* of do_it with the same arguments
    arr_a,            \* do_it's arrays a, u and the muscle outputs
    arr_u,
    arr_out,
    muscle,           \* the openmuscle.Muscle object of the current call
    i_loop            \* enumerate index of the stepping loop

vars == <<pc, runs, pulse_duration, pulse_amplitude, total_duration, i_grid,
          a_cur, ev, a_first, arr_a, arr_u, arr_out, muscle, i_loop>>

----------------------------------------------------------------------------
\* Fixed-point arithmetic

ONE  == 10^8              \* the float 1.0
RATE == ONE \div 1000     \* the rate 1.0 /s

Abs(x) == IF x < 0 THEN -x ELSE x
Sgn(x) == IF x < 0 THEN -1 ELSE 1

\* <<q, r>> with x * y = q * z + r and 0 <= r < z, for x, y >= 0 and z > 0,
\* by binary long multiplication on y.
RECURSIVE MulDivQR(_, _, _)
MulDivQR(x, y, z) ==
    IF y = 0 THEN <<0, 0>>
    ELSE IF x < y THEN MulDivQR(y, x, z)
    ELSE LET h   == MulDivQR(x, y \div 2, z)
             add == IF y % 2 = 1 THEN x ELSE 0
             r2  == 2 * h[2] + (add % z)
         IN  <<2 * h[1] + (add \div z) + (r2 \div z), r2 % z>>

\* x * y / z rounded toward zero.  A zero divisor (numpy yields inf or nan
\* there) gives 0; no reachable evaluation has one.
MulDiv(x, y, z) ==
    IF z = 0 THEN 0
    ELSE Sgn(x) * Sgn(y) * Sgn(z) * MulDivQR(Abs(x), Abs(y), Abs(z))[1]

FMul(x, y) == MulDiv(x, y, ONE)   \* x * y
FDiv(x, y) == MulDiv(x, ONE, y)   \* x / y

----------------------------------------------------------------------------
\* Cell 2: get_u, tau, dydt

pulse_start_early == ONE \div 50           \* 0.02
pulse_start == ONE \div 5                  \* 0.2
t_act       == ONE \div 1000               \* 0.001 s
t_deact_fast == 8 * (ONE \div 1000)        \* 0.008 s
t_deact     == 80 * (ONE \div 1000)        \* 0.080 s

get_u_ge(t, pulse_amplitude_, pulse_duration_) ==
    IF (t >= pulse_start) /\ (t < (pulse_start + pulse_duration_))
    THEN pulse_amplitude_ ELSE 0

get_u_unit(t, pulse_amplitude_, pulse_duration_) ==
    IF (t > pulse_start) /\ (t < (pulse_start + pulse_duration_))
    THEN ONE ELSE 0

get_u(t, pulse_amplitude_, pulse_duration_) ==
    IF (t > pulse_start) /\ (t < (pulse_start + pulse_duration_))
    THEN pulse_amplitude_ ELSE 0

tau_den_minus(a) == (ONE \div 2) - ((3 * a) \div 2)

\* 0.5 + 1.5 * a
tau_den(a) == (ONE \div 2) + ((3 * a) \div 2)

tau_ge(a, u) ==
    IF u >= a THEN FMul(t_act, tau_den(a)) ELSE FDiv(t_deact, tau_den(a))

tau(a, u) ==
    IF u > a THEN FMul(t_act, tau_den(a)) ELSE FDiv(t_deact, tau_den(a))

dydt_swapped(y, t, pulse_amplitude_, pulse_duration_) ==
    LET a == y
        u == get_u(t, pulse_amplitude_, pulse_duration_)
    IN  MulDiv(a - u, RATE, tau(a, u))

\* (u - a) / tau(a, u), as a rate
dydt(y, t, pulse_amplitude_, pulse_duration_) ==
    LET a == y
        u == get_u(t, pulse_amplitude_, pulse_duration_)
    IN  MulDiv(u - a, RATE, tau(a, u))

----------------------------------------------------------------------------
\* Cell 3: do_it

dt == ONE \div 10000      \* 0.0001
a0 == 0

\* len(np.arange(total_duration / dt)): the ceiling of the quotient
GridLen(total_duration_) == (total_duration_ + dt - 1) \div dt

\* t[i] of t = np.arange(total_duration / dt) * dt, i counted from 0
GridTime(i) == i * dt

\* What one call of dydt by the solver computes, kept field by field.
Evaluation(y, t, pulse_amplitude_, pulse_duration_) ==
    LET u == get_u(t, pulse_amplitude_, pulse_duration_)
    IN  [valid |-> TRUE, a |-> y, t |-> t, u |-> u,
         den |-> tau_den(y), tau |-> tau(y, u),
         dydt |-> dydt(y, t, pulse_amplitude_, pulse_duration_)]

\* The solver's advance from grid point i to i + 1.
odeint_step(y, i, pulse_amplitude_, pulse_duration_) ==
    y + MulDiv(dydt(y, GridTime(i), pulse_amplitude_, pulse_duration_), dt, RATE)

NoEvaluation ==
    [valid |-> FALSE, a |-> 0, t |-> 0, u |-> 0, den |-> 0, tau |-> 0, dydt |-> 0]

----------------------------------------------------------------------------
\* Inputs

MaxRuns == 2

Ticks(k) == k * dt
PulseDurations  == {0, Ticks(50), Ticks(2000)}      \* 0, 0.005, 0.2
PulseAmplitudes == {0, ONE \div 2, ONE}             \* 0, 0.5, 1
TotalDurations  == {Ticks(5000), Ticks(10000)}      \* 0.5, 1.0

----------------------------------------------------------------------------
\* Spec: the activation solve of do_it, one action per solver advance

Init ==
    /\ pc = "idle"
    /\ runs = 0
    /\ pulse_duration = 0
    /\ pulse_amplitude = 0
    /\ total_duration = 0
    /\ i_grid = 0
    /\ a_cur = 0
    /\ ev = NoEvaluation
    /\ a_first = 0
    /\ arr_a = <<>>
    /\ arr_u = <<>>
    /\ arr_out = <<>>
    /\ muscle = [built |-> FALSE]
    /\ i_loop = 0

loopvars == <<arr_a, arr_u, arr_out, muscle, i_loop>>

do_it_stale ==
    /\ pc = "idle"
    /\ runs < MaxRuns
    /\ \E pd \in PulseDurations, pa \in PulseAmplitudes, td \in TotalDurations :
          /\ pulse_duration' = pd
          /\ pulse_amplitude' = pa
          /\ total_duration' = td
    /\ runs' = runs + 1
    /\ pc' = "odeint"
    /\ i_grid' = 0
    /\ a_cur' = a_cur
    /\ a_first' = 0
    /\ ev' = NoEvaluation
    /\ UNCHANGED loopvars

\* interact(do_it, ...) calls do_it on a slider change; odeint starts at a0.
do_it ==
    /\ pc = "idle"
    /\ runs < MaxRuns
    /\ \E pd \in PulseDurations, pa \in PulseAmplitudes, td \in TotalDurations :
          /\ pulse_duration' = pd
          /\ pulse_amplitude' = pa
          /\ total_duration' = td
    /\ runs' = runs + 1
    /\ pc' = "odeint"
    /\ i_grid' = 0
    /\ a_cur' = a0
    /\ a_first' = 0
    /\ ev' = NoEvaluation
    /\ UNCHANGED loopvars

odeint_advance ==
    /\ pc = "odeint"
    /\ i_grid + 1 < GridLen(total_duration)
    /\ ev' = Evaluation(a_cur, GridTime(i_grid), pulse_amplitude, pulse_duration)
    /\ a_cur' = odeint_step(a_cur, i_grid, pulse_amplitude, pulse_duration)
    /\ a_first' = odeint_step(a_first, i_grid, pulse_amplitude, pulse_duration)
    /\ i_grid' = i_grid + 1
    /\ UNCHANGED <<pc, runs, pulse_duration, pulse_amplitude, total_duration>>
    /\ UNCHANGED loopvars

do_it_return ==
    /\ pc = "odeint"
    /\ i_grid + 1 >= GridLen(total_duration)
    /\ pc' = "idle"
    /\ UNCHANGED <<runs, pulse_duration, pulse_amplitude, total_duration,
                   i_grid, a_cur, ev, a_first>>
    /\ UNCHANGED loopvars

Next == do_it \/ odeint_advance \/ do_it_return

Spec == Init /\ [][Next]_vars

----------------------------------------------------------------------------
\* Properties of the activation solve (checked under Spec)

PulseOn(t) == (pulse_start < t) /\ (t < pulse_start + pulse_duration)
PulseEnd   == pulse_start + pulse_duration
Now        == GridTime(i_grid)

\* Times around both pulse edges, on and off the grid.
ProbeTimes ==
    {0, pulse_start - 1, pulse_start, pulse_start + 1, pulse_start + dt,
     PulseEnd - dt, PulseEnd - 1, PulseEnd, PulseEnd + 1, 2 * ONE}

\* C1: get_u returns pulse_amplitude strictly inside (pulse_start,
\* pulse_start + pulse_duration) and 0 everywhere else, both endpoints and a
\* zero-length pulse included, with pulse_start = 0.2; this holds of the
\* excitation every solver evaluation obtained and of get_u at times around
\* both edges.
C1_get_u_is_open_pulse ==
    /\ pulse_start = 2 * (ONE \div 10)
    /\ ev.valid =>
          /\ (ev.t <= pulse_start \/ ev.t >= PulseEnd) => ev.u = 0
          /\ (ev.t > pulse_start /\ ev.t < PulseEnd) => ev.u = pulse_amplitude
          /\ pulse_duration = 0 => ev.u = 0
    /\ pc = "idle" =>
          \A t \in ProbeTimes :
              /\ PulseOn(t) => get_u(t, pulse_amplitude, pulse_duration) = pulse_amplitude
              /\ ~PulseOn(t) => get_u(t, pulse_amplitude, pulse_duration) = 0
              /\ get_u(t, pulse_amplitude, 0) = 0

\* The solver evaluated get_u exactly at the closing edge of a non-empty
\* pulse of non-zero amplitude and got 0.
C1_witness ==
    /\ ev.valid /\ pulse_duration > 0 /\ pulse_amplitude > 0
    /\ ev.t = PulseEnd /\ ev.u = 0

C3_zero_amplitude_stays_zero ==
    pulse_amplitude = 0 =>
        /\ a_cur = 0
        /\ ev.valid => (ev.u = 0 /\ ev.dydt = 0)

\* A zero-amplitude run with a non-empty pulse window, solved to the last
\* grid point of a 1.0 s window.
C3_witness ==
    /\ runs > 0 /\ pulse_amplitude = 0 /\ pulse_duration > 0
    /\ total_duration = Ticks(10000) /\ i_grid + 1 = GridLen(total_duration)
    /\ ev.valid /\ a_cur = 0

C8_tau_branch_from_current_state ==
    /\ t_act = ONE \div 1000
    /\ t_deact = 8 * (ONE \div 100)
    /\ ev.valid =>
          /\ ev.t = GridTime(i_grid - 1)
          /\ ev.u = (IF PulseOn(ev.t) THEN pulse_amplitude ELSE 0)
          /\ ev.den = (ONE \div 2) + (3 * ev.a) \div 2
          /\ ev.u > ev.a =>
                /\ ev.tau = FMul(t_act, ev.den)
                /\ ev.tau >= t_act \div 2 /\ ev.tau <= 2 * t_act
          /\ ev.u <= ev.a =>
                /\ FMul(ev.tau, ev.den) \in (t_deact - 2)..t_deact
                /\ ev.tau >= t_deact \div 2 /\ ev.tau <= 2 * t_deact

\* The activating branch was taken at a non-initial activation (the initial
\* state a = 0, u = 0 selects the deactivating branch).
C8_witness ==
    ev.valid /\ ev.u > ev.a /\ ev.a > ONE \div 2 /\ ev.tau > t_act

\* C10: at every evaluation the divisor 0.5 + 1.5a is at least 0.5 and tau
\* is strictly positive and finite, so dydt never divides by zero.
C10_tau_positive_finite ==
    /\ ev.valid =>
          /\ ev.a \in 0..ONE /\ ev.u \in 0..ONE
          /\ ev.den >= ONE \div 2
          /\ ev.tau > 0
          /\ ev.tau <= 2 * t_deact
    /\ pc = "idle" =>
          \A a \in {0, ONE \div 3, ONE \div 2, ONE}, u \in {0, ONE \div 2, ONE} :
              tau_den(a) >= ONE \div 2 /\ tau(a, u) > 0 /\ tau(a, u) <= 2 * t_deact

\* The deactivating branch was evaluated at an activation above 1/3.
C10_witness ==
    ev.valid /\ ev.a > ONE \div 3 /\ ev.u <= ev.a /\ ev.tau > 0

T0200 == Ticks(2000)      \* t = 0.2
T0205 == Ticks(2050)      \* t = 0.205

Scenario5 ==
    /\ pulse_amplitude = ONE
    /\ pulse_duration = Ticks(50)
    /\ total_duration = Ticks(10000)

Scenario6 ==
    /\ pulse_amplitude > 0
    /\ pulse_duration = Ticks(2000)
    /\ total_duration = Ticks(10000)

OnsetIdx  == T0200 \div dt                   \* grid index of t = 0.2
OffsetIdx == (T0200 + Ticks(2000)) \div dt   \* grid index of t = 0.2 + 0.2

\* C6 as stated: the decay back to 10% of the steady value takes tens of
\* milliseconds, i.e. it is over 100 ms after pulse offset.
C6_decay_within_tens_of_ms ==
    (Scenario6 /\ i_grid = OffsetIdx + 1000) => 10 * a_cur <= pulse_amplitude

\* C6 amended: for a pulse long enough to reach steady activation, 90% of
\* the steady value is reached later than 1 ms and no later than 4 ms after
\* pulse onset and is held until pulse offset, while 10% is reached later
\* than 150 ms and no later than 400 ms after pulse offset (hundreds of
\* milliseconds): the decay is more than 37 times slower than the rise.
C6_rise_ms_decay_hundreds_of_ms ==
    Scenario6 =>
        /\ i_grid = OnsetIdx + 10 => 10 * a_cur < 9 * pulse_amplitude
        /\ (i_grid >= OnsetIdx + 40 /\ i_grid <= OffsetIdx)
              => 10 * a_cur >= 9 * pulse_amplitude
        /\ i_grid = OffsetIdx + 1500 => 10 * a_cur > pulse_amplitude
        /\ i_grid >= OffsetIdx + 4000 => 10 * a_cur <= pulse_amplitude

\* A half-amplitude long pulse, 400 ms after its offset, below 10%.
C6_witness ==
    /\ Scenario6 /\ pulse_amplitude = ONE \div 2
    /\ i_grid = OffsetIdx + 4000 /\ a_cur > 0 /\ 10 * a_cur <= pulse_amplitude

----------------------------------------------------------------------------
\* SpecLoop: do_it with its arrays, one action per iteration of the loop

\* a = odeint(dydt, a0, t, args): the n values from grid index i on, the
\* first being y.
RECURSIVE odeint_from(_, _, _, _, _)
odeint_from(y, i, n, pulse_amplitude_, pulse_duration_) ==
    IF n = 0 THEN <<>>
    ELSE IF n = 1 THEN <<y>>
    ELSE LET h    == n \div 2
             left == odeint_from(y, i, h, pulse_amplitude_, pulse_duration_)
             ymid == odeint_step(left[h], i + h - 1, pulse_amplitude_, pulse_duration_)
         IN  left \o odeint_from(ymid, i + h, n - h, pulse_amplitude_, pulse_duration_)

odeint(y0, n, pulse_amplitude_, pulse_duration_) ==
    odeint_from(y0, 0, n, pulse_amplitude_, pulse_duration_)

\* openmuscle.Muscle, as a stub that records its construction and its calls.
\* step returns the ordinal of the call as f_mtc, the activation and the dt
\* it was given as f_ce and f_see, the activation it was built from as l_see
\* and the factor 0.5 as the isometric force factor.
Muscle(a) == [built |-> TRUE, a_init |-> a, steps |-> 0, v_CE |-> 0]

muscle_step(m, ai, dt_) ==
    [muscle  |-> [m EXCEPT !.steps = @ + 1, !.v_CE = m.steps + 1],
     f_mtc   |-> m.steps,
     f_ce    |-> ai,
     f_isomi |-> ONE \div 2,
     f_see   |-> dt_,
     l_see   |-> m.a_init]

\* One element of v_ce, f_mtc, f_ce, f_isom, f_see, l_see after np.zeros_like
ZeroOut ==
    [v_ce |-> 0, f_mtc |-> 0, f_ce |-> 0, f_isom |-> 0, f_see |-> 0, l_see |-> 0]

LoopAmplitudes == {ONE \div 2, ONE}
LoopPulses     == {Ticks(50)}         \* 0.005
LoopDurations  == {Ticks(2100)}       \* 0.21

solvevars == <<i_grid, a_cur, ev, a_first>>

do_it_skip_first ==
    /\ pc = "idle"
    /\ runs < MaxRuns
    /\ \E pd \in LoopPulses, pa \in LoopAmplitudes, td \in LoopDurations :
          /\ pulse_duration' = pd
          /\ pulse_amplitude' = pa
          /\ total_duration' = td
          /\ arr_a' = odeint(a0, GridLen(td), pa, pd)
          /\ arr_u' = [k \in 1..GridLen(td) |-> get_u(GridTime(k - 1), pa, pd)]
          /\ arr_out' = [k \in 1..GridLen(td) |-> ZeroOut]
    /\ muscle' = Muscle(arr_a'[1])
    /\ i_loop' = 1
    /\ runs' = runs + 1
    /\ pc' = "loop"
    /\ UNCHANGED solvevars

\* Lines 105-118: the grid, the solve, the excitation list, the zeroed
\* output arrays and the muscle object.
do_it_setup ==
    /\ pc = "idle"
    /\ runs < MaxRuns
    /\ \E pd \in LoopPulses, pa \in LoopAmplitudes, td \in LoopDurations :
          /\ pulse_duration' = pd
          /\ pulse_amplitude' = pa
          /\ total_duration' = td
          /\ arr_a' = odeint(a0, GridLen(td), pa, pd)
          /\ arr_u' = [k \in 1..GridLen(td) |-> get_u(GridTime(k - 1), pa, pd)]
          /\ arr_out' = [k \in 1..GridLen(td) |-> ZeroOut]
    /\ muscle' = Muscle(arr_a'[1])
    /\ i_loop' = 0
    /\ runs' = runs + 1
    /\ pc' = "loop"
    /\ UNCHANGED solvevars

\* Lines 119-122: one iteration of "for i, ai in enumerate(a)".
\* Index i of the code is index i + 1 of the sequences.
loop_iteration ==
    /\ pc = "loop"
    /\ i_loop < Len(arr_a)
    /\ LET ai == arr_a[i_loop + 1]
           r  == muscle_step(muscle, ai, dt)
       IN  /\ muscle' = r.muscle
           /\ arr_out' = [arr_out EXCEPT ![i_loop + 1] =
                            [v_ce   |-> r.muscle.v_CE,
                             f_mtc  |-> r.f_mtc,
                             f_ce   |-> r.f_ce,
                             f_isom |-> FMul(r.f_isomi, ai),
                             f_see  |-> r.f_see,
                             l_see  |-> r.l_see]]
    /\ i_loop' = i_loop + 1
    /\ UNCHANGED <<pc, runs, pulse_duration, pulse_amplitude, total_duration,
                   arr_a, arr_u>>
    /\ UNCHANGED solvevars

\* Lines 124-152: the plots read the arrays; do_it returns.
loop_return ==
    /\ pc = "loop"
    /\ i_loop >= Len(arr_a)
    /\ pc' = "idle"
    /\ UNCHANGED <<runs, pulse_duration, pulse_amplitude, total_duration,
                   arr_a, arr_u, arr_out, muscle, i_loop>>
    /\ UNCHANGED solvevars

NextLoop == do_it_setup \/ loop_iteration \/ loop_return

SpecLoop == Init /\ [][NextLoop]_vars

\* C9: within a run the activation, excitation and output arrays have the
\* length of the time grid; the muscle was constructed from a[0]; after i
\* iterations the muscle has been stepped exactly i times, the k-th call
\* (k = 0 .. i-1, in increasing order) with a[k] and dt and with its outputs
\* stored at index k, f_isom[k] being the returned factor times a[k]; the
\* entries from i on are still zero.
C9_loop_aligned_with_grid ==
    runs > 0 =>
        /\ Len(arr_a) = GridLen(total_duration)
        /\ Len(arr_u) = Len(arr_a)
        /\ Len(arr_out) = Len(arr_a)
        /\ arr_a[1] = 0
        /\ muscle.built /\ muscle.a_init = arr_a[1]
        /\ muscle.steps = i_loop
        /\ i_loop <= Len(arr_a)
        /\ \A k \in 1..Len(arr_a) :
              /\ arr_u[k] = (IF k - 1 > 2000 /\ k - 1 < 2000 + pulse_duration \div dt
                             THEN pulse_amplitude ELSE 0)
              /\ k > i_loop => arr_out[k] = ZeroOut
              /\ k <= i_loop =>
                    /\ arr_out[k].f_mtc = k - 1
                    /\ arr_out[k].v_ce = k
                    /\ arr_out[k].f_ce = arr_a[k]
                    /\ arr_out[k].f_see = ONE \div 10000
                    /\ arr_out[k].l_see = arr_a[1]
                    /\ arr_out[k].f_isom = arr_a[k] \div 2

\* The loop has run over the whole grid of a run whose activation is not 0
\* at the last grid point.
C9_witness ==
    /\ pc = "loop" /\ i_loop = Len(arr_a) /\ i_loop = 2100
    /\ arr_a[i_loop] > 0 /\ arr_out[i_loop].f_isom > 0

====
